---------------------------- MODULE Spec2Model ----------------------------
(***************************************************************************)
(* Model of the Capricorn front end: the streaming clients in              *)
(* frontend/src/utils/api.js (retrieveAndAnalyzeArticles, streamChat), the *)
(* request helpers of the same file, and the proxy routes of the Express   *)
(* server.                                                                 *)
(*                                                                         *)
(* Text is a sequence of one-character strings.  A line of the retrieval   *)
(* stream is written over a reduced JSON alphabet:                         *)
(*    <<"{", t, "}">>      stands for {"type": T(t)}                       *)
(*    <<"{", t, i, "}">>   stands for {"type": T(t), "pmid": i}            *)
(*    <<"{", "}">>         stands for {} (valid JSON, no type field)       *)
(* and every other line is not valid JSON.                                 *)
(***************************************************************************)
EXTENDS Integers, Sequences, FiniteSets, TLC

(***************************************************************************)
(* Bounds of the model.                                                    *)
(***************************************************************************)
MaxLines == 3
MaxArticles == 2
MaxFrames == 3

NL == "\n"
Whitespace == {" ", "\r", "\t", NL}
TypeChars == {"s", "a", "p", "x", "d"}
IdSeq == <<"1", "2", "3", "4">>
IdChars == {IdSeq[i] : i \in 1..Len(IdSeq)}

Min(a, b) == IF a < b THEN a ELSE b

(***************************************************************************)
(* JavaScript string primitives used by the code.                          *)
(***************************************************************************)
\* String.prototype.indexOf(ch): 0-based position of the first ch, or -1.
RECURSIVE IndexFrom(_, _, _)
IndexFrom(s, ch, i) ==
  IF i > Len(s) THEN -1
  ELSE IF s[i] = ch THEN i - 1
  ELSE IndexFrom(s, ch, i + 1)

IndexOf(s, ch) == IndexFrom(s, ch, 1)

\* String.prototype.slice(from, to) for 0 <= from, 0 <= to (both clamped).
Slice(s, from, to) ==
  LET a == Min(from, Len(s))
      b == Min(to, Len(s))
  IN IF b <= a THEN <<>> ELSE SubSeq(s, a + 1, b)

\* String.prototype.slice(from).
SliceFrom(s, from) == Slice(s, from, Len(s))

\* String.prototype.trim(): strip leading, then trailing white space.
RECURSIVE TrimStart(_)
TrimStart(s) ==
  IF s = <<>> THEN <<>>
  ELSE IF Head(s) \in Whitespace THEN TrimStart(Tail(s))
  ELSE s

RECURSIVE TrimEnd(_)
TrimEnd(s) ==
  IF s = <<>> THEN <<>>
  ELSE IF s[Len(s)] \in Whitespace THEN TrimEnd(SubSeq(s, 1, Len(s) - 1))
  ELSE s

Trim(s) == TrimEnd(TrimStart(s))

\* String.prototype.split(ch): the segments between the occurrences of ch
\* (always at least one segment, empty segments kept).
RECURSIVE Split(_, _)
Split(s, ch) ==
  LET p == IndexOf(s, ch)
  IN IF p = -1 THEN <<s>>
     ELSE <<Slice(s, 0, p)>> \o Split(SliceFrom(s, p + 1), ch)

\* String.prototype.startsWith(prefix).
StartsWith(s, prefix) ==
  /\ Len(s) >= Len(prefix)
  /\ SubSeq(s, 1, Len(prefix)) = prefix

(***************************************************************************)
(* JSON.parse over the reduced alphabet.  kind is "error" when JSON.parse  *)
(* throws, "object" otherwise; type is "" when the object has no type      *)
(* field.                                                                  *)
(***************************************************************************)
TypeName(t) ==
  CASE t = "s" -> "status"
    [] t = "a" -> "article"
    [] t = "p" -> "error"
    [] t = "x" -> "error"
    [] t = "d" -> "done"

ParseError == [kind |-> "error", type |-> "", id |-> ""]

JSONParse(line) ==
  IF line = <<"{", "}">>
    THEN [kind |-> "object", type |-> "", id |-> ""]
  ELSE IF Len(line) = 3 /\ line[1] = "{" /\ line[2] \in TypeChars /\ line[3] = "}"
    THEN [kind |-> "object", type |-> TypeName(line[2]), id |-> ""]
  ELSE IF /\ Len(line) = 4 /\ line[1] = "{" /\ line[2] \in TypeChars
          /\ line[3] \in IdChars /\ line[4] = "}"
    THEN [kind |-> "object", type |-> TypeName(line[2]), id |-> line[3]]
  ELSE ParseError

(***************************************************************************)
(* retrieveAndAnalyzeArticles: the 'data' handler.                         *)
(***************************************************************************)
\* Lines 54-62: parse one non-empty line and call onProgress for a typed object.
DeliverMutDup(calls, line) ==
  LET data == JSONParse(line)
  IN IF data.kind = "object" /\ data.type # ""
       THEN calls \o <<[type |-> data.type, id |-> data.id],
                       [type |-> data.type, id |-> data.id]>>
       ELSE calls

DeliverMutDropError(calls, line) ==
  LET data == JSONParse(line)
  IN IF data.kind = "object" /\ data.type # "" /\ data.type # "error"
       THEN Append(calls, [type |-> data.type, id |-> data.id])
       ELSE calls

DeliverMutStopOnError(calls, line) ==
  LET data == JSONParse(line)
  IN IF /\ data.kind = "object" /\ data.type # ""
        /\ \A i \in 1..Len(calls) : calls[i].type # "error"
       THEN Append(calls, [type |-> data.type, id |-> data.id])
       ELSE calls

Deliver(calls, line) ==
  LET data == JSONParse(line)
  IN IF data.kind = "object" /\ data.type # ""
       THEN Append(calls, [type |-> data.type, id |-> data.id])
       ELSE calls

\* The caller's onProgress throws when called with an event of these types.
VARIABLE thrower

OnProgressThrows(line) == JSONParse(line).type \in thrower

\* The call of onProgress after the try block: what it throws leaves the
\* handler.
TryBlockMutUncaught(calls, line) ==
  [calls |-> Deliver(calls, line), escaped |-> OnProgressThrows(line)]

\* Lines 54-62: the try block of one iteration.  JSON.parse and the call of
\* onProgress are both inside it, and the catch only logs: nothing that
\* either throws leaves the iteration.
TryBlock(calls, line) ==
  [calls |-> Deliver(calls, line), escaped |-> FALSE]

\* Lines 47-65: the while loop.  `continue` (line 52) jumps to the loop test
\* without recomputing lineEnd (line 64), so the next iteration cuts the
\* buffer at the stale position; with an empty buffer the iteration repeats
\* itself for ever (hung).
\* A parse error that leaves the handler: the lines after it wait in the
\* buffer for the next chunk.
RECURSIVE LineLoopMutThrow(_, _, _)
LineLoopMutThrow(buffer, lineEnd, calls) ==
  IF lineEnd = -1 THEN [buffer |-> buffer, calls |-> calls, hung |-> FALSE]
  ELSE LET line == Trim(Slice(buffer, 0, lineEnd))
           rest == SliceFrom(buffer, lineEnd + 1)
       IN IF line = <<>>
            THEN IF buffer = <<>>
                   THEN [buffer |-> buffer, calls |-> calls, hung |-> TRUE]
                   ELSE LineLoopMutThrow(rest, lineEnd, calls)
            ELSE IF JSONParse(line).kind = "error"
                   THEN [buffer |-> rest, calls |-> calls, hung |-> FALSE]
                   ELSE LineLoopMutThrow(rest, IndexOf(rest, NL),
                                         Deliver(calls, line))

RECURSIVE LineLoop(_, _, _)
LineLoop(buffer, lineEnd, calls) ==
  IF lineEnd = -1 THEN [buffer |-> buffer, calls |-> calls, hung |-> FALSE]
  ELSE LET line == Trim(Slice(buffer, 0, lineEnd))
           rest == SliceFrom(buffer, lineEnd + 1)
           try == TryBlock(calls, line)
       IN IF line = <<>>
            THEN IF buffer = <<>>
                   THEN [buffer |-> buffer, calls |-> calls, hung |-> TRUE]
                   ELSE LineLoop(rest, lineEnd, calls)
            ELSE IF try.escaped
                   THEN [buffer |-> rest, calls |-> try.calls, hung |-> FALSE]
                   ELSE LineLoop(rest, IndexOf(rest, NL), try.calls)

\* Lines 44-66: buffer += decode(chunk); then the loop.
DataHandlerMutNoBuffer(buffer, chunk, calls) ==
  LET r == LineLoop(chunk, IndexOf(chunk, NL), calls)
  IN [buffer |-> <<>>, calls |-> r.calls, hung |-> r.hung]

DataHandler(buffer, chunk, calls) ==
  LineLoop(buffer \o chunk, IndexOf(buffer \o chunk, NL), calls)


(***************************************************************************)
(* streamChat: the 'data' handler.  A frame is the line "data: " followed  *)
(* by the payload; <<"{", c, "}">> stands for {"text": c}, <<"{", "}">>    *)
(* for {} and anything else is not valid JSON.                             *)
(***************************************************************************)
DataPrefix == <<"d", "a", "t", "a", ":", " ">>
DoneSentinel == <<"[", "D", "O", "N", "E", "]">>
PrefixLen == 6
TextChars == <<"t", "u", "v", "w", "y", "z">>

TextOf(payload) ==
  IF /\ Len(payload) = 3 /\ payload[1] = "{" /\ payload[3] = "}"
     /\ \E i \in 1..Len(TextChars) : TextChars[i] = payload[2]
    THEN payload[2]
    ELSE ""

\* Lines 102-109: parse the payload, call onChunk when it has a text.
ChatDeliver(calls, data) ==
  IF TextOf(data) # "" THEN Append(calls, TextOf(data)) ELSE calls

\* Lines 96-111: the for loop over the lines of one chunk; `break` at [DONE].
RECURSIVE ChatLoop(_, _)
ChatLoop(lines, calls) ==
  IF lines = <<>> THEN calls
  ELSE LET line == Head(lines)
       IN IF StartsWith(line, DataPrefix)
            THEN LET data == SliceFrom(line, PrefixLen)
                 IN IF data = DoneSentinel THEN calls
                    ELSE ChatLoop(Tail(lines), ChatDeliver(calls, data))
            ELSE ChatLoop(Tail(lines), calls)

\* Lines 92-112: decode the chunk, split it on "\n", run the loop.  Nothing
\* is kept from one chunk to the next.
ChatHandler(chunk, calls) == ChatLoop(Split(chunk, NL), calls)

(***************************************************************************)
(* The proxy routes of the server and the axios client.                    *)
(***************************************************************************)
\* How a call of the client ends: the backend (a Cloud Function) answers the
\* proxied request ("ok"), answers it with an error status ("status"), does
\* not answer the proxy ("network"), or the proxy itself is not reached
\* ("unreachable").
BackendOutcomes == {"ok", "status", "network", "unreachable"}
BackendStatus == 503

\* try { await axios...; res.json / pipe } catch { res.status(...).send(...) }
ProxyStatus(outcome) ==
  CASE outcome = "ok" -> 200
    [] outcome = "status" -> BackendStatus
    [] outcome = "network" -> 500

\* The status the client's axios call sees; 0 when there is no response.
ResponseStatus(outcome) ==
  IF outcome = "unreachable" THEN 0 ELSE ProxyStatus(outcome)

\* axios rejects a response whose status is outside 200..299, and a call
\* without response.
AxiosResolves(status) == status >= 200 /\ status < 300

(***************************************************************************)
(* State.                                                                  *)
(***************************************************************************)
VARIABLES
  op,        \* "retrieve" | "chat" | "none": the streaming call in progress
  stream,    \* the bytes the backend sends when it runs to its end
  wire,      \* the suffix of stream not yet handed to the 'data' handler
  buffer,    \* retrieveAndAnalyzeArticles: let buffer (line 42)
  calls,     \* the arguments of the onProgress / onChunk calls so far
  rpc,       \* the call: idle, posting, streaming, resolved, rejected, hung
  upstream,  \* the backend's response: none, failed, open, ended, broken
  midline,   \* history: a chunk boundary fell inside a line
  plan,      \* the retrieval run of the backend that produces stream
  stage,     \* the request: Received ... Completed, Failed; None outside one
  failedAt,  \* the stage a Failed request failed in
  trace,     \* history: the stages the request has entered
  caseText,  \* Case.rawText
  redacted,  \* Case.redactedText
  disease,   \* Case.disease
  events,    \* Case.events
  analysis,  \* the FinalAnalysis
  last,      \* history: the last helper call, its backend outcome and result
  body,      \* response.data of that helper call
  gone,      \* history: the caller has abandoned the streaming call
  stub,      \* the stub capability: the outcome and data it answers with
  history,   \* history: the helper calls made on the stub, with their texts
  conc,      \* two streaming calls in progress at once, each with its locals
  config,    \* config module: let config (line 15)
  getters,   \* the getConfig calls: where each one is, what it returned
  fetches,   \* history: the number of requests sent to /api/config
  proxy      \* a request to a proxy route: the route, its step, what it sent

svars == <<op, stream, wire, buffer, calls, rpc, upstream, midline, plan>>
pvars == <<stage, failedAt, trace, caseText, redacted, disease, events,
           analysis, last, body>>
gvars == <<gone, stub, history, conc, config, getters, fetches, thrower,
           proxy>>

\* The bytes handed to the 'data' handler so far.
Received == SubSeq(stream, 1, Len(stream) - Len(wire))

(***************************************************************************)
(* The streaming call, step by step.                                       *)
(***************************************************************************)
\* `await api.post(...)` settles (api.js 31-38, 81-87), through the proxy
\* route (server 226-248).
PostSettles(outcome) ==
  /\ rpc = "posting"
  /\ IF AxiosResolves(ResponseStatus(outcome))
       THEN rpc' = "streaming" /\ upstream' = "open"
       ELSE rpc' = "rejected" /\ upstream' = "failed"
  /\ UNCHANGED <<op, stream, wire, buffer, calls, midline, plan>>
  /\ UNCHANGED pvars
  /\ UNCHANGED gvars

\* reader 'data' with the next k bytes.
OnData(k) ==
  /\ rpc = "streaming" /\ upstream = "open"
  /\ k \in 1..Len(wire)
  /\ LET chunk == SubSeq(wire, 1, k)
     IN /\ wire' = SubSeq(wire, k + 1, Len(wire))
        /\ midline' = (midline \/ (chunk[k] # NL /\ k < Len(wire)))
        /\ IF op = "retrieve"
             THEN LET r == DataHandler(buffer, chunk, calls)
                  IN /\ buffer' = r.buffer
                     /\ calls' = r.calls
                     /\ rpc' = IF r.hung THEN "hung" ELSE rpc
             ELSE /\ calls' = ChatHandler(chunk, calls)
                  /\ UNCHANGED <<buffer, rpc>>
  /\ UNCHANGED <<op, stream, upstream, plan>>
  /\ UNCHANGED pvars
  /\ UNCHANGED gvars

\* The backend ends its stream, pipe() ends the proxied response, and
\* reader 'end' resolves the promise (api.js 69, 115).
OnEnd ==
  /\ rpc = "streaming" /\ upstream = "open" /\ wire = <<>>
  /\ upstream' = "ended"
  /\ rpc' = "resolved"
  /\ UNCHANGED <<op, stream, wire, buffer, calls, midline, plan>>
  /\ UNCHANGED pvars
  /\ UNCHANGED gvars

\* The connection to the proxy fails: reader 'error' rejects the promise
\* (api.js 70, 116).
OnError ==
  /\ rpc = "streaming"
  /\ rpc' = "rejected"
  /\ UNCHANGED <<op, stream, wire, buffer, calls, upstream, midline, plan>>
  /\ UNCHANGED pvars
  /\ UNCHANGED gvars

\* The backend stream breaks before its end.  readable.pipe(res) registers
\* nothing for it: the proxied response is neither ended nor destroyed, so
\* the client sees neither 'end' nor 'error'.
UpstreamBreaks ==
  /\ rpc = "streaming" /\ upstream = "open"
  /\ upstream' = "broken"
  /\ UNCHANGED <<op, stream, wire, buffer, calls, rpc, midline, plan>>
  /\ UNCHANGED pvars
  /\ UNCHANGED gvars

StreamStep ==
  \/ \E outcome \in BackendOutcomes : PostSettles(outcome)
  \/ \E k \in 1..Len(wire) : OnData(k)
  \/ OnEnd
  \/ OnError
  \/ UpstreamBreaks

(***************************************************************************)
(* Streams.                                                                *)
(***************************************************************************)
\* All sequences over S of length 0..n.
SeqsUpTo(S, n) == UNION {[1..m -> S] : m \in 0..n}

Terminated(line) == line \o <<NL>>

RECURSIVE Lines(_)
Lines(ls) == IF ls = <<>> THEN <<>> ELSE Terminated(Head(ls)) \o Lines(Tail(ls))

\* Lines a retrieval client may be handed: events, an object without type,
\* a truncated object, a blank line, a white-space line.
LineForms ==
  { <<"{", "a", "1", "}">>, <<"{", "d", "}">>, <<"{", "}">>, <<"{", "a">>,
    <<>>, <<"\r">> }

\* What may follow the last newline.
TailForms == { <<>>, <<"{", "d", "}">> }

ClientStreams ==
  { Lines(ls) \o t : ls \in SeqsUpTo(LineForms, MaxLines), t \in TailForms }

\* JavaScript values: undefined, a string, an array of strings, an object.
Undefined == [kind |-> "undefined"]
Text(s) == [kind |-> "text", chars |-> s]
List(xs) == [kind |-> "list", items |-> xs]
Num(k) == [kind |-> "number", value |-> k]

NoPlan == [args |-> Undefined, n |-> 0, fails |-> {}, search |-> TRUE]

NoCall == [fn |-> "none", outcome |-> "none", returned |-> FALSE,
           value |-> Undefined]

\* The config module not loaded yet (line 15) and no getConfig call made.
Null == [kind |-> "null"]

\* Nothing but the call under study is going on.
Alone ==
  /\ gone = FALSE
  /\ stub = Undefined
  /\ history = <<>>
  /\ conc = <<>>
  /\ config = Null
  /\ getters = <<>>
  /\ fetches = 0
  /\ thrower = {}
  /\ proxy = Undefined

\* No request of the pipeline is in progress: a helper is called directly.
NoRequest ==
  /\ Alone
  /\ stage = "None"
  /\ failedAt = ""
  /\ trace = <<>>
  /\ caseText = <<>>
  /\ redacted = Undefined
  /\ disease = Undefined
  /\ events = Undefined
  /\ analysis = Undefined
  /\ last = NoCall
  /\ body = Undefined

StreamInit(o, streams) ==
  /\ op = o
  /\ plan = NoPlan
  /\ NoRequest
  /\ stream \in streams
  /\ wire = stream
  /\ buffer = <<>>
  /\ calls = <<>>
  /\ rpc = "posting"
  /\ upstream = "none"
  /\ midline = FALSE

vars == <<svars, pvars, gvars>>

InitClient == StreamInit("retrieve", ClientStreams)
SpecClient == InitClient /\ [][StreamStep]_vars


(***************************************************************************)
(* What a stream says, read off its text: the typed events of its          *)
(* newline-terminated lines, in order.                                     *)
(***************************************************************************)
CompleteLines(text) ==
  LET segs == Split(text, NL) IN SubSeq(segs, 1, Len(segs) - 1)

RECURSIVE EventsOfLines(_)
EventsOfLines(ls) ==
  IF ls = <<>> THEN <<>>
  ELSE LET data == JSONParse(Trim(Head(ls)))
       IN (IF data.kind = "object" /\ data.type # ""
             THEN <<[type |-> data.type, id |-> data.id]>>
             ELSE <<>>) \o EventsOfLines(Tail(ls))

EventsOf(text) == EventsOfLines(CompleteLines(text))

NoBlankLine(text) ==
  \A i \in 1..Len(CompleteLines(text)) : Trim(CompleteLines(text)[i]) # <<>>

MaxAfterDone == 1

Frame(payload) == DataPrefix \o payload \o <<NL, NL>>

\* The text frames number from..to; frame i carries the text TextChars[i].
RECURSIVE TextFrames(_, _)
TextFrames(from, to) ==
  IF from > to THEN <<>>
  ELSE Frame(<<"{", TextChars[from], "}">>) \o TextFrames(from + 1, to)

ChatStreams ==
  { TextFrames(1, n) : n \in 0..MaxFrames }
  \cup { TextFrames(1, n) \o Frame(DoneSentinel) \o TextFrames(n + 1, n + m) :
           n \in 0..MaxFrames, m \in 0..MaxAfterDone }

InitChat == StreamInit("chat", ChatStreams)
SpecChat == InitChat /\ [][StreamStep]_vars

\* The texts of the frames of a stream that come before its [DONE] frame.
RECURSIVE TextsBeforeDone(_)
TextsBeforeDone(ls) ==
  IF ls = <<>> THEN <<>>
  ELSE IF Head(ls) = DataPrefix \o DoneSentinel THEN <<>>
  ELSE (IF StartsWith(Head(ls), DataPrefix)
             /\ TextOf(SliceFrom(Head(ls), PrefixLen)) # ""
          THEN <<TextOf(SliceFrom(Head(ls), PrefixLen))>>
          ELSE <<>>) \o TextsBeforeDone(Tail(ls))

DoneReceived ==
  \E i \in 1..Len(CompleteLines(Received)) :
    CompleteLines(Received)[i] = DataPrefix \o DoneSentinel

\* C2: whatever the chunking, a resolved streamChat call has called onChunk
\* once per text frame emitted before [DONE], in emission order: the calls of
\* the run that receives the whole stream in one chunk.
C2_ChatChunkingInvisible ==
  (op = "chat" /\ rpc = "resolved")
    => /\ calls = TextsBeforeDone(CompleteLines(stream))
       /\ calls = ChatHandler(stream, <<>>)

\* C3: once the [DONE] frame has been received no onChunk call is made, in
\* the same chunk or in a later one; and the stream of three text frames and
\* [DONE] ends with exactly three calls.
C3_NoCallAfterDone ==
  /\ [][(op = "chat" /\ DoneReceived) => calls' = calls]_vars
  /\ [](( /\ op = "chat" /\ rpc = "resolved"
          /\ stream = TextFrames(1, 3) \o Frame(DoneSentinel) )
          => Len(calls) = 3)


(***************************************************************************)
(* The retrieval run of the backend (spec.md 4.2): when the query build or *)
(* the initial search fails the stream is one terminal error event; else   *)
(* every selected article gets a status event when its work starts and,    *)
(* when it completes, an article event or an error event scoped to it, in  *)
(* completion order, and one done event closes the stream.                 *)
(***************************************************************************)
EventLine(t, i) == Terminated(<<"{", t, IdSeq[i], "}">>)

\* The interleavings of the work on the articles todo (not started) and
\* running (started), the articles of fails failing.
RECURSIVE Runs(_, _, _)
Runs(todo, running, fails) ==
  IF todo = {} /\ running = {} THEN { <<>> }
  ELSE UNION { { EventLine("s", i) \o r :
                   r \in Runs(todo \ {i}, running \cup {i}, fails) } : i \in todo }
       \cup
       UNION { { EventLine(IF i \in fails THEN "p" ELSE "a", i) \o r :
                   r \in Runs(todo, running \ {i}, fails) } : i \in running }

BackendStreams(p) ==
  IF p.search
    THEN { r \o Terminated(<<"{", "d", "}">>) : r \in Runs(1..p.n, {}, p.fails) }
    ELSE { Terminated(<<"{", "x", "}">>) }

\* Array.prototype.join
RECURSIVE Join(_, _)
Join(xs, sep) ==
  IF xs = <<>> THEN <<>>
  ELSE IF Len(xs) = 1 THEN Head(xs)
  ELSE Head(xs) \o <<sep>> \o Join(Tail(xs), sep)

DefaultNumArticles == 15

\* The arguments of a call: disease, events, numArticles (undefined when the
\* caller passes none).
Args(d, e, k) == [disease |-> d, events |-> e, numArticles |-> k]

\* The body sent whatever the caller's numArticles.
RequestBodyMutFixedNum(args) ==
  [events_text |-> Join(args.events, NL),
   disease |-> args.disease,
   num_articles |-> DefaultNumArticles]

\* Lines 28, 31-36: the body of the POST; numArticles = 15 by default.
RequestBody(args) ==
  [events_text |-> Join(args.events, NL),
   disease |-> args.disease,
   num_articles |-> IF args.numArticles = Undefined THEN DefaultNumArticles
                    ELSE args.numArticles.value]

\* Calls with an empty and with a non-empty query; the caller asks for fewer
\* articles than the MaxArticles candidates there are, or passes no number.
CallArgs ==
  { Args(q[1], q[2], k) :
      q \in {<<<<>>, <<>>>>, <<<<"a">>, <<<<"a">>, <<"b">>>>>>},
      k \in {Num(i) : i \in 0..(MaxArticles - 1)} \cup {Undefined} }

\* Neither a disease nor an event to build the query from.
QueryEmpty(req) == req.disease = <<>> /\ req.events_text = <<>>

\* The candidates are ranked and truncated to num_articles.
Selected(req) == Min(req.num_articles, MaxArticles)

\* The runs of the backend for a call: with a query, the search succeeds and
\* any of the selected articles may fail, or the search fails; without a
\* query the search fails.
PlansFor(args) ==
  { [args |-> args, n |-> Selected(RequestBody(args)), fails |-> f,
     search |-> TRUE] :
      f \in IF QueryEmpty(RequestBody(args)) THEN {}
            ELSE SUBSET (1..Selected(RequestBody(args))) }
  \cup { [args |-> args, n |-> 0, fails |-> {}, search |-> FALSE] }

Plans == UNION { PlansFor(args) : args \in CallArgs }

InitRetrieve ==
  /\ op = "retrieve"
  /\ plan \in {p \in Plans : p.fails \subseteq 1..p.n}
  /\ stream \in BackendStreams(plan)
  /\ wire = stream
  /\ buffer = <<>>
  /\ calls = <<>>
  /\ rpc = "posting"
  /\ upstream = "none"
  /\ midline = FALSE
  /\ NoRequest

SpecRetrieve == InitRetrieve /\ [][StreamStep]_vars

\* A terminal event: done, or an error that is scoped to no article.
IsTerminal(e) == e.type = "done" \/ (e.type = "error" /\ e.id = "")

CountOf(kind) ==
  Cardinality({i \in 1..Len(calls) : calls[i].type = kind /\ ~IsTerminal(calls[i])})

\* C4: in the events delivered to onProgress for one retrieval request a
\* terminal event (done, or a stream-terminating error) is the last one.
C4_TerminalEventLast ==
  op = "retrieve" =>
    \A i \in 1..Len(calls) : IsTerminal(calls[i]) => i = Len(calls)

\* C4 witness: a call that received its stream in pieces and delivered
\* several events, the terminal one last.
C4_Witness ==
  /\ op = "retrieve" /\ rpc = "resolved" /\ midline
  /\ Len(calls) >= 3 /\ IsTerminal(calls[Len(calls)])

\* C5: when the backend's side of a retrieval request is over (the initial
\* call failed, its stream ended, or its stream broke) the caller has its
\* one terminal marker: the call has resolved or has rejected.
C5_AlwaysOneTerminalMarker ==
  (op = "retrieve" /\ upstream \in {"failed", "ended", "broken"})
    => rpc \in {"resolved", "rejected"}

\* C6: with k of the n selected articles failing, a completed retrieval has
\* delivered n - k article events, k article-scoped error events, and one
\* terminal success event, which is the last.
C6_PartialFailureNotFatal ==
  (op = "retrieve" /\ rpc = "resolved" /\ plan.search)
    => /\ CountOf("article") = plan.n - Cardinality(plan.fails)
       /\ CountOf("error") = Cardinality(plan.fails)
       /\ Cardinality({i \in 1..Len(calls) : IsTerminal(calls[i])}) = 1
       /\ calls[Len(calls)] = [type |-> "done", id |-> ""]

\* C6 witness: a completed retrieval in which an article event was delivered
\* after an article-scoped error event.
C6_Witness ==
  /\ op = "retrieve" /\ rpc = "resolved" /\ plan.search
  /\ plan.fails # {} /\ Cardinality(plan.fails) < plan.n
  /\ \E i, j \in 1..Len(calls) :
       /\ i < j
       /\ calls[i].type = "error" /\ calls[i].id # ""
       /\ calls[j].type = "article"


(***************************************************************************)
(* The request helpers of api.js.  Each takes what the backend did with    *)
(* the proxied call and the body it answered, and returns or throws.       *)
(***************************************************************************)
Obj(redactedText, analysisField) ==
  [kind |-> "object", redactedText |-> redactedText, analysis |-> analysisField]

\* response.data.<name>
Field(d, name) == IF d.kind = "object" THEN d[name] ELSE Undefined

Thrown == [returned |-> FALSE, value |-> Undefined]
Returned(v) == [returned |-> TRUE, value |-> v]

Quote == "\""

\* Line 153: .filter(event => event.trim() && event !== ' ')
RECURSIVE FilterEventsMutKeepBlank(_)
FilterEventsMutKeepBlank(xs) ==
  IF xs = <<>> THEN <<>>
  ELSE (IF Head(xs) # <<>> /\ Head(xs) # <<" ">> THEN <<Head(xs)>> ELSE <<>>)
         \o FilterEventsMutKeepBlank(Tail(xs))

RECURSIVE FilterEvents(_)
FilterEvents(xs) ==
  IF xs = <<>> THEN <<>>
  ELSE (IF Trim(Head(xs)) # <<>> /\ Head(xs) # <<" ">> THEN <<Head(xs)>> ELSE <<>>)
         \o FilterEvents(Tail(xs))

\* Lines 130-138.
\* A best-effort redaction: the original text returned when the call fails.
RedactSensitiveInfoMutFailOpen(outcome, d) ==
  IF AxiosResolves(ResponseStatus(outcome))
    THEN Returned(Field(d, "redactedText"))
    ELSE Returned(Text(caseText))

RedactSensitiveInfo(outcome, d) ==
  IF AxiosResolves(ResponseStatus(outcome))
    THEN Returned(Field(d, "redactedText"))
    ELSE Thrown

\* Lines 140-148: response.data.trim() throws a TypeError when response.data
\* is no string; the catch rethrows.
ExtractDiseaseMutSwallow(outcome, d) ==
  IF AxiosResolves(ResponseStatus(outcome)) /\ d.kind = "text"
    THEN Returned(Text(Trim(d.chars)))
    ELSE Returned(Text(<<>>))

\* A result kept in the module between the calls and prepended to the next.
ExtractDiseaseMutCarry(outcome, d) ==
  IF AxiosResolves(ResponseStatus(outcome)) /\ d.kind = "text"
    THEN Returned(Text(Trim((IF last.returned /\ last.value.kind = "text"
                               THEN last.value.chars ELSE <<>>) \o d.chars)))
    ELSE Thrown

ExtractDisease(outcome, d) ==
  IF AxiosResolves(ResponseStatus(outcome)) /\ d.kind = "text"
    THEN Returned(Text(Trim(d.chars)))
    ELSE Thrown

\* Lines 150-158: response.data.split('"') throws a TypeError when
\* response.data is no string; the catch rethrows.
ExtractEvents(outcome, d) ==
  IF AxiosResolves(ResponseStatus(outcome)) /\ d.kind = "text"
    THEN Returned(List(FilterEvents(Split(d.chars, Quote))))
    ELSE Thrown

\* Lines 236-258.
GenerateFinalAnalysisMutSwallow(outcome, d) ==
  IF AxiosResolves(ResponseStatus(outcome))
    THEN Returned(Field(d, "analysis"))
    ELSE Returned(Obj(Undefined, Undefined))

GenerateFinalAnalysis(outcome, d) ==
  IF AxiosResolves(ResponseStatus(outcome))
    THEN Returned(Field(d, "analysis"))
    ELSE Thrown

Call(fn, outcome, d) ==
  CASE fn = "redactSensitiveInfo" -> RedactSensitiveInfo(outcome, d)
    [] fn = "extractDisease" -> ExtractDisease(outcome, d)
    [] fn = "extractEvents" -> ExtractEvents(outcome, d)
    [] fn = "generateFinalAnalysis" -> GenerateFinalAnalysis(outcome, d)

CallRecord(fn, outcome, d) ==
  [fn |-> fn, outcome |-> outcome, returned |-> Call(fn, outcome, d).returned,
   value |-> Call(fn, outcome, d).value]

(***************************************************************************)
(* The extraction helpers on their own: the model output is drawn from the *)
(* texts of length up to MaxOut over quote, blank, newline and letters.    *)
(***************************************************************************)
MaxOut == 4
OutChars == {Quote, " ", NL, "a", "b"}

Outputs == {Text(t) : t \in SeqsUpTo(OutChars, MaxOut)}

InitExtract ==
  /\ op = "none"
  /\ plan = NoPlan
  /\ stream = <<>> /\ wire = <<>> /\ buffer = <<>> /\ calls = <<>>
  /\ rpc = "idle" /\ upstream = "none" /\ midline = FALSE
  /\ stage = "None" /\ failedAt = "" /\ trace = <<>> /\ caseText = <<>>
  /\ redacted = Undefined /\ disease = Undefined /\ events = Undefined
  /\ analysis = Undefined
  /\ last = NoCall
  /\ body \in Outputs
  /\ Alone

\* extractDisease / extractEvents called; the backend answers body.
CallExtract(fn, outcome) ==
  /\ stage = "None" /\ op = "none" /\ last = NoCall
  /\ last' = CallRecord(fn, outcome, body)
  /\ UNCHANGED svars
  /\ UNCHANGED gvars
  /\ UNCHANGED <<stage, failedAt, trace, caseText, redacted, disease, events,
                 analysis, body>>

ExtractStep ==
  \E fn \in {"extractDisease", "extractEvents"}, outcome \in BackendOutcomes :
    CallExtract(fn, outcome)

SpecExtract == InitExtract /\ [][ExtractStep]_vars

\* The text between two positions of the model output.
Between(t, from, to) == IF from > to THEN <<>> ELSE SubSeq(t, from, to)

\* The position of the k-th quote of t; 0 for k = 0, Len(t) + 1 past the last.
QuotePos(t, k) ==
  IF k = 0 THEN 0
  ELSE IF k > Cardinality({p \in 1..Len(t) : t[p] = Quote}) THEN Len(t) + 1
  ELSE CHOOSE p \in 1..Len(t) :
         t[p] = Quote /\ Cardinality({q \in 1..p : t[q] = Quote}) = k

\* The k-th segment of t: the text from after quote k-1 to before quote k.
Segment(t, k) == Between(t, QuotePos(t, k - 1) + 1, QuotePos(t, k) - 1)

Blank(t) == \A p \in 1..Len(t) : t[p] \in Whitespace

KeptSegments(t) ==
  {k \in 1..(Cardinality({p \in 1..Len(t) : t[p] = Quote}) + 1) :
     ~Blank(Segment(t, k))}

\* C10: extractEvents returns the segments of the model output between its
\* double quotes that are neither empty nor white space only, in their
\* order, and nothing else; extractDisease returns the output from its first
\* to its last character that is no white space.
C10_ExtractionParsing ==
  (last.fn \in {"extractDisease", "extractEvents"} /\ last.outcome = "ok"
     /\ body.kind = "text")
    => LET t == body.chars
           solid == {p \in 1..Len(t) : t[p] \notin Whitespace}
       IN /\ last.returned
          /\ last.fn = "extractEvents" =>
               LET r == last.value.items
                   kept == KeptSegments(t)
               IN /\ Len(r) = Cardinality(kept)
                  /\ \A k \in kept :
                       r[Cardinality({j \in kept : j <= k})] = Segment(t, k)
                  /\ \A i \in 1..Len(r) : ~Blank(r[i])
          /\ last.fn = "extractDisease" =>
               last.value.chars =
                 IF solid = {} THEN <<>>
                 ELSE Between(t, CHOOSE p \in solid : \A q \in solid : p <= q,
                                 CHOOSE p \in solid : \A q \in solid : p >= q)

\* C10 witness: extractEvents dropped an empty and a one-blank segment and
\* kept the third segment.
C10_Witness ==
  /\ last.fn = "extractEvents" /\ last.returned
  /\ body.kind = "text"
  /\ Len(last.value.items) = 1
  /\ Len(Split(body.chars, Quote)) = 3
  /\ \E k \in 1..3 : Split(body.chars, Quote)[k] = <<" ">>
  /\ \E k \in 1..3 : Split(body.chars, Quote)[k] = <<>>


(***************************************************************************)
(* The pipeline orchestrator (spec.md 4.4): one request goes through       *)
(* Received, Redacting, Extracting, Retrieving, Synthesizing, Completed,   *)
(* or ends in Failed(stage).  Each stage calls the helper of api.js that   *)
(* serves it.                                                              *)
(***************************************************************************)
MaxPipelineArticles == 1

StageOrder ==
  <<"Received", "Redacting", "Extracting", "Retrieving", "Synthesizing",
    "Completed">>

TerminalStages == {"Completed", "Failed"}

CaseTexts == {<<>>, <<"c">>}
RedactReplies == {Obj(Text(<<"r">>), Undefined)}
DiseaseReplies == {Text(<<" ", "a", NL>>), Text(<<" ">>), Obj(Undefined, Undefined)}
EventsReplies ==
  {Text(<<Quote, "a", Quote, " ", Quote, "b", Quote>>), Obj(Undefined, Undefined)}
FinalReplies == {Obj(Undefined, Text(<<"f">>)), Obj(Undefined, Undefined)}

InitPipeline ==
  /\ op = "none"
  /\ plan = NoPlan
  /\ stream = <<>> /\ wire = <<>> /\ buffer = <<>> /\ calls = <<>>
  /\ rpc = "idle" /\ upstream = "none" /\ midline = FALSE
  /\ stage = "Received" /\ failedAt = "" /\ trace = <<"Received">>
  /\ caseText \in CaseTexts
  /\ redacted = Undefined /\ disease = Undefined /\ events = Undefined
  /\ analysis = Undefined
  /\ last = NoCall
  /\ body = Undefined
  /\ Alone

\* The request enters the stage st.
Enter(st) ==
  /\ stage' = st
  /\ trace' = Append(trace, st)
  /\ UNCHANGED failedAt

\* The request fails in the stage st: terminal.
FailAtMutGoOn(st) ==
  /\ stage' = "Completed"
  /\ trace' = Append(trace, "Completed")
  /\ failedAt' = st

FailAt(st) ==
  /\ stage' = "Failed"
  /\ trace' = Append(trace, "Failed")
  /\ failedAt' = st

\* Received -> Redacting on a non-empty case text.
Validate ==
  /\ stage = "Received"
  /\ IF caseText # <<>> THEN Enter("Redacting") ELSE FailAt("Received")
  /\ UNCHANGED svars
  /\ UNCHANGED gvars
  /\ UNCHANGED <<caseText, redacted, disease, events, analysis, last, body>>

\* Redacting -> Extracting on redaction success, else Failed(Redacting).
RedactStage(outcome, d) ==
  /\ stage = "Redacting"
  /\ last' = CallRecord("redactSensitiveInfo", outcome, d)
  /\ body' = d
  /\ IF last'.returned /\ last'.value # Undefined
       THEN redacted' = last'.value /\ Enter("Extracting")
       ELSE UNCHANGED redacted /\ FailAt("Redacting")
  /\ UNCHANGED svars
  /\ UNCHANGED gvars
  /\ UNCHANGED <<caseText, disease, events, analysis>>

\* Extracting: the disease; an empty disease fails the request.
DiseaseStage(outcome, d) ==
  /\ stage = "Extracting" /\ last.fn = "redactSensitiveInfo"
  /\ last' = CallRecord("extractDisease", outcome, d)
  /\ body' = d
  /\ IF last'.returned /\ last'.value.chars # <<>>
       THEN disease' = last'.value /\ UNCHANGED <<stage, trace, failedAt>>
       ELSE UNCHANGED disease /\ FailAt("Extracting")
  /\ UNCHANGED svars
  /\ UNCHANGED gvars
  /\ UNCHANGED <<caseText, redacted, events, analysis>>

\* Extracting -> Retrieving once the events are extracted too.
EventsStage(outcome, d) ==
  /\ stage = "Extracting" /\ last.fn = "extractDisease"
  /\ last' = CallRecord("extractEvents", outcome, d)
  /\ body' = d
  /\ IF last'.returned
       THEN events' = last'.value /\ Enter("Retrieving")
       ELSE UNCHANGED events /\ FailAt("Extracting")
  /\ UNCHANGED svars
  /\ UNCHANGED gvars
  /\ UNCHANGED <<caseText, redacted, disease, analysis>>

\* Retrieving: retrieveAndAnalyzeArticles is called (api.js 28-38).
StartRetrieval ==
  /\ stage = "Retrieving" /\ rpc = "idle"
  /\ op' = "retrieve"
  /\ plan' \in {p \in Plans : /\ p.args.disease = disease.chars
                               /\ p.args.events = events.items
                               /\ p.n <= MaxPipelineArticles
                               /\ p.fails \subseteq 1..p.n}
  /\ stream' \in BackendStreams(plan')
  /\ wire' = stream'
  /\ rpc' = "posting"
  /\ UNCHANGED <<buffer, calls, upstream, midline>>
  /\ UNCHANGED pvars
  /\ UNCHANGED gvars

\* Retrieving -> Synthesizing when the stream has completed; a stream that
\* ended with a terminal error, or a rejected call, fails the request.
RetrievalOver ==
  /\ stage = "Retrieving" /\ rpc \in {"resolved", "rejected"}
  /\ IF rpc = "resolved" /\ \A i \in 1..Len(calls) : ~(calls[i].type = "error" /\ calls[i].id = "")
       THEN Enter("Synthesizing")
       ELSE FailAt("Retrieving")
  /\ UNCHANGED svars
  /\ UNCHANGED gvars
  /\ UNCHANGED <<caseText, redacted, disease, events, analysis, last, body>>

\* Retrieving -> Synthesizing at the retrieval deadline, with the articles
\* collected so far; the streaming call itself is left running.
RetrievalTimeout ==
  /\ stage = "Retrieving" /\ rpc \in {"posting", "streaming"}
  /\ Enter("Synthesizing")
  /\ UNCHANGED svars
  /\ UNCHANGED gvars
  /\ UNCHANGED <<caseText, redacted, disease, events, analysis, last, body>>

\* Synthesizing -> Completed on a FinalAnalysis, else Failed(Synthesizing).
SynthesizeStage(outcome, d) ==
  /\ stage = "Synthesizing"
  /\ last' = CallRecord("generateFinalAnalysis", outcome, d)
  /\ body' = d
  /\ IF last'.returned /\ last'.value # Undefined
       THEN analysis' = last'.value /\ Enter("Completed")
       ELSE UNCHANGED analysis /\ FailAt("Synthesizing")
  /\ UNCHANGED svars
  /\ UNCHANGED gvars
  /\ UNCHANGED <<caseText, redacted, disease, events>>

PipelineStep ==
  \/ Validate
  \/ \E outcome \in BackendOutcomes, d \in RedactReplies : RedactStage(outcome, d)
  \/ \E outcome \in BackendOutcomes, d \in DiseaseReplies : DiseaseStage(outcome, d)
  \/ \E outcome \in BackendOutcomes, d \in EventsReplies : EventsStage(outcome, d)
  \/ StartRetrieval
  \/ RetrievalOver
  \/ RetrievalTimeout
  \/ \E outcome \in BackendOutcomes, d \in FinalReplies : SynthesizeStage(outcome, d)

PipelineNext == PipelineStep \/ StreamStep

SpecPipeline == InitPipeline /\ [][PipelineNext]_vars

\* Every pending step of the orchestrator is eventually taken: the event
\* loop runs the continuation of a settled call, and the deadline fires.
FairPipeline == SpecPipeline /\ WF_vars(PipelineStep)


\* The stages entered, a final Failed left out, are the first stages of the
\* order, one after the other.
TraceInOrder ==
  LET n == Len(trace)
      entered == IF trace[n] = "Failed" THEN SubSeq(trace, 1, n - 1) ELSE trace
  IN /\ Len(entered) <= Len(StageOrder)
     /\ entered = SubSeq(StageOrder, 1, Len(entered))
     /\ stage = trace[n]

\* A step leaves a request that is Completed or Failed as it is.
StaysTerminal ==
  stage \in TerminalStages =>
    (stage' = stage /\ trace' = trace /\ failedAt' = failedAt)

\* C7: a request enters the stages in the order Received, Redacting,
\* Extracting, Retrieving, Synthesizing, Completed; it never is in both
\* terminal states; nothing changes its stage once it is Completed or Failed;
\* and a request with a non-empty case text reaches a terminal state.
C7_OneTerminalState ==
  /\ [](stage # "None" =>
          /\ TraceInOrder
          /\ Cardinality({i \in 1..Len(trace) : trace[i] \in TerminalStages}) <= 1)
  /\ [][StaysTerminal]_vars
  /\ ((stage = "Received" /\ caseText # <<>>) ~> (stage \in TerminalStages))

\* C7 witness: a request that went through every stage while one of its
\* articles failed.
C7_Witness ==
  /\ stage = "Completed" /\ trace = StageOrder
  /\ plan.fails # {}

\* C8: when the final-analysis call fails (the backend answers an error
\* status, or does not answer) generateFinalAnalysis throws and returns no
\* value, no FinalAnalysis is kept, and the request is Failed(Synthesizing).
C8_SynthesisFailureIsTerminal ==
  (last.fn = "generateFinalAnalysis" /\ last.outcome # "ok")
    => /\ ~last.returned
       /\ last.value = Undefined
       /\ analysis = Undefined
       /\ stage = "Failed" /\ failedAt = "Synthesizing"
       /\ "Completed" \notin {trace[i] : i \in 1..Len(trace)}

\* C8 witness: the backend answered the final-analysis call with an error
\* status after a retrieval that delivered an article.
C8_Witness ==
  /\ last.fn = "generateFinalAnalysis" /\ last.outcome = "status"
  /\ stage = "Failed"
  /\ \E i \in 1..Len(calls) : calls[i].type = "article"

\* C9: extractDisease and extractEvents throw when the call fails or the
\* answer is no text; a request whose extraction throws, or whose disease is
\* empty, is Failed(Extracting) and its retrieval is never started.
C9_ExtractionFailureAborts ==
  /\ (last.fn \in {"extractDisease", "extractEvents"}
        /\ (last.outcome # "ok" \/ body.kind # "text"))
       => /\ ~last.returned
          /\ stage = "Failed" /\ failedAt = "Extracting"
          /\ rpc = "idle" /\ op = "none"
  /\ (last.fn = "extractDisease" /\ last.returned /\ last.value.chars = <<>>)
       => /\ stage = "Failed" /\ failedAt = "Extracting"
          /\ rpc = "idle" /\ op = "none"

\* C9 witness: the answer to extractDisease was an object, not a text.
C9_Witness ==
  /\ last.fn = "extractDisease" /\ last.outcome = "ok" /\ body.kind = "object"
  /\ stage = "Failed" /\ failedAt = "Extracting"

(***************************************************************************)
(* extractDisease called several times on a stub backend: a deterministic  *)
(* stub answers a text with the same outcome and the same data each time.  *)
(***************************************************************************)
MaxStub == 2
MaxCalls == 3
StubChars == {" ", "a"}
StubTexts == {<<"c">>, <<"e">>}
StubReplies ==
  [outcome : BackendOutcomes,
   data : {Text(t) : t \in SeqsUpTo(StubChars, MaxStub)}]

InitStub ==
  /\ op = "none"
  /\ plan = NoPlan
  /\ stream = <<>> /\ wire = <<>> /\ buffer = <<>> /\ calls = <<>>
  /\ rpc = "idle" /\ upstream = "none" /\ midline = FALSE
  /\ stage = "None" /\ failedAt = "" /\ trace = <<>> /\ caseText = <<>>
  /\ redacted = Undefined /\ disease = Undefined /\ events = Undefined
  /\ analysis = Undefined
  /\ last = NoCall
  /\ body = Undefined
  /\ gone = FALSE
  /\ stub \in [StubTexts -> StubReplies]
  /\ history = <<>>
  /\ conc = <<>>
  /\ config = Null
  /\ getters = <<>>
  /\ fetches = 0
  /\ thrower = {}
  /\ proxy = Undefined

\* extractDisease(text): the proxy forwards the text, the stub answers it.
CallOnStub(text) ==
  /\ stub # Undefined
  /\ Len(history) < MaxCalls
  /\ caseText' = text
  /\ body' = stub[text].data
  /\ last' = CallRecord("extractDisease", stub[text].outcome, stub[text].data)
  /\ history' = Append(history, [text |-> text, call |-> last'])
  /\ UNCHANGED svars
  /\ UNCHANGED <<stage, failedAt, trace, redacted, disease, events, analysis>>
  /\ UNCHANGED <<gone, stub, conc, config, getters, fetches, thrower,
               proxy>>

StubStep == \E text \in StubTexts : CallOnStub(text)

SpecStub == InitStub /\ [][StubStep]_vars

Entered(st) == \E i \in DOMAIN trace : trace[i] = st

\* C12: when the redaction backend fails, redactSensitiveInfo throws and
\* returns nothing, the original text least of all; the request fails in
\* Redacting, and a request that entered Extracting has a redacted text that
\* a successful redaction returned.
C12_RedactionFailsClosed ==
  /\ (last.fn = "redactSensitiveInfo" /\ last.outcome # "ok")
       => /\ ~last.returned
          /\ last.value # Text(caseText)
          /\ redacted = Undefined
          /\ stage = "Failed" /\ failedAt = "Redacting"
          /\ ~Entered("Extracting")
  /\ Entered("Extracting") => redacted \in {Field(d, "redactedText") : d \in RedactReplies}

\* C12 witness: the backend answered the redaction of a case text with an
\* error status.
C12_Witness ==
  /\ last.fn = "redactSensitiveInfo" /\ last.outcome = "status"
  /\ caseText # <<>>
  /\ stage = "Failed" /\ failedAt = "Redacting"

(***************************************************************************)
(* The caller of a streaming call goes away while the call is in progress. *)
(* retrieveAndAnalyzeArticles and streamChat take no AbortSignal and       *)
(* return no handle on the request, and the proxy routes register nothing  *)
(* for the 'close' of req or res: the connection, the 'data' handler and   *)
(* the proxy's call to the backend all stay as they are.                   *)
(***************************************************************************)
MaxCancelLines == 2

CancelStreams(o) ==
  IF o = "retrieve"
    THEN { Lines(ls) :
             ls \in SeqsUpTo({<<"{", "a", "1", "}">>, <<"{", "d", "}">>},
                             MaxCancelLines) }
    ELSE { TextFrames(1, n) \o Frame(DoneSentinel) : n \in 0..MaxCancelLines }

InitCancel ==
  \E o \in {"retrieve", "chat"} : StreamInit(o, CancelStreams(o))

CallerDisconnects ==
  /\ rpc \in {"posting", "streaming"}
  /\ ~gone
  /\ gone' = TRUE
  /\ UNCHANGED svars
  /\ UNCHANGED pvars
  /\ UNCHANGED <<stub, history, conc, config, getters, fetches, thrower,
               proxy>>

CancelStep == StreamStep \/ CallerDisconnects

SpecCancel == InitCancel /\ [][CancelStep]_vars

\* C13: once the caller of a streaming call has disconnected, no step of the
\* call invokes its callback, and no step leaves the proxy's call to the
\* backend open.
C13_DisconnectCancels ==
  [][gone => (calls' = calls /\ upstream' # "open")]_vars

(***************************************************************************)
(* Two streaming calls in progress at once.  Each call of                  *)
(* retrieveAndAnalyzeArticles has its own reader, decoder and buffer       *)
(* (lines 40-42), each call of streamChat its own reader and decoder       *)
(* (lines 89-90); the event loop runs one 'data' handler at a time.        *)
(***************************************************************************)
MaxConcLines == 1
Callers == {1, 2}

\* Call c is sent articles 2c-1 and 2c, or the texts from number 2c-1 on.
ConcStreams(c, o) ==
  IF o = "retrieve"
    THEN { Lines(ls) :
             ls \in SeqsUpTo({<<"{", "a", IdSeq[2 * c - 1], "}">>,
                              <<"{", "a", IdSeq[2 * c], "}">>}, MaxConcLines) }
    ELSE { TextFrames(2 * c - 1, 2 * c - 2 + n) : n \in 0..MaxConcLines }

ConcCall(o, s) ==
  [op |-> o, stream |-> s, wire |-> s, buffer |-> <<>>, calls |-> <<>>,
   rpc |-> "streaming", midline |-> FALSE, crossed |-> FALSE]

InitConc ==
  /\ op = "none"
  /\ plan = NoPlan
  /\ stream = <<>> /\ wire = <<>> /\ buffer = <<>> /\ calls = <<>>
  /\ rpc = "idle" /\ upstream = "none" /\ midline = FALSE
  /\ stage = "None" /\ failedAt = "" /\ trace = <<>> /\ caseText = <<>>
  /\ redacted = Undefined /\ disease = Undefined /\ events = Undefined
  /\ analysis = Undefined
  /\ last = NoCall
  /\ body = Undefined
  /\ gone = FALSE
  /\ stub = Undefined
  /\ history = <<>>
  /\ \E o1 \in {"retrieve", "chat"}, o2 \in {"retrieve", "chat"} :
       \E s1 \in ConcStreams(1, o1), s2 \in ConcStreams(2, o2) :
         conc = <<ConcCall(o1, s1), ConcCall(o2, s2)>>
  /\ config = Null
  /\ getters = <<>>
  /\ fetches = 0
  /\ thrower = {}
  /\ proxy = Undefined

\* One buffer for all the calls, as a `let buffer` of the module would be.
BufferOfMutShared(c) == conc[1].buffer

\* Line 42: let buffer = '' inside the function: one buffer per call.
BufferOf(c) == conc[c].buffer

\* The other call has received part of its stream and not all of it.
OtherMidStream(c) ==
  \E d \in Callers \ {c} :
    conc[d].wire # <<>> /\ conc[d].wire # conc[d].stream

\* reader 'data' of call c with the next k bytes of its response.
ConcData(c, k) ==
  /\ conc # <<>>
  /\ conc[c].rpc = "streaming"
  /\ k \in 1..Len(conc[c].wire)
  /\ LET me == conc[c]
         chunk == SubSeq(me.wire, 1, k)
         r == DataHandler(BufferOf(c), chunk, me.calls)
         seen == [me EXCEPT
                    !.wire = SubSeq(me.wire, k + 1, Len(me.wire)),
                    !.midline = (@ \/ (chunk[k] # NL /\ k < Len(me.wire))),
                    !.crossed = (@ \/ OtherMidStream(c))]
     IN conc' = [conc EXCEPT ![c] =
                   IF me.op = "retrieve"
                     THEN [seen EXCEPT !.buffer = r.buffer, !.calls = r.calls,
                                       !.rpc = IF r.hung THEN "hung" ELSE @]
                     ELSE [seen EXCEPT !.calls = ChatHandler(chunk, me.calls)]]
  /\ UNCHANGED svars
  /\ UNCHANGED pvars
  /\ UNCHANGED <<gone, stub, history, config, getters, fetches, thrower,
               proxy>>

\* reader 'end' of call c resolves its promise (lines 69, 115).
ConcEnd(c) ==
  /\ conc # <<>>
  /\ conc[c].rpc = "streaming"
  /\ conc[c].wire = <<>>
  /\ conc' = [conc EXCEPT ![c].rpc = "resolved"]
  /\ UNCHANGED svars
  /\ UNCHANGED pvars
  /\ UNCHANGED <<gone, stub, history, config, getters, fetches, thrower,
               proxy>>

\* reader 'error' of call c rejects its promise (lines 70, 116).
ConcError(c) ==
  /\ conc # <<>>
  /\ conc[c].rpc = "streaming"
  /\ conc' = [conc EXCEPT ![c].rpc = "rejected"]
  /\ UNCHANGED svars
  /\ UNCHANGED pvars
  /\ UNCHANGED <<gone, stub, history, config, getters, fetches, thrower,
               proxy>>

ConcStep ==
  \E c \in Callers :
    \/ \E k \in 1..Len(conc[c].wire) : ConcData(c, k)
    \/ ConcEnd(c)
    \/ ConcError(c)

SpecConc == InitConc /\ [][ConcStep]_vars

\* xs is ys with some elements left out.
RECURSIVE IsSubSeq(_, _)
IsSubSeq(xs, ys) ==
  IF xs = <<>> THEN TRUE
  ELSE IF ys = <<>> THEN FALSE
  ELSE IF Head(xs) = Head(ys) THEN IsSubSeq(Tail(xs), Tail(ys))
  ELSE IsSubSeq(xs, Tail(ys))

ReceivedBy(c) ==
  SubSeq(conc[c].stream, 1, Len(conc[c].stream) - Len(conc[c].wire))

\* C14: with two streaming calls in progress and their chunks interleaved,
\* the callback of a retrieval call has received the events of the complete
\* lines of its own stream, once each and in order; the callback of a chat
\* call has received texts of its own stream only, in order, and all the
\* texts received when no chunk boundary fell inside one of its frames.
C14_ConcurrentCallsIsolated ==
  \A c \in DOMAIN conc :
    /\ conc[c].op = "retrieve" => conc[c].calls = EventsOf(ReceivedBy(c))
    /\ conc[c].op = "chat" =>
         /\ IsSubSeq(conc[c].calls,
                     TextsBeforeDone(CompleteLines(conc[c].stream)))
         /\ ~conc[c].midline =>
              conc[c].calls = TextsBeforeDone(CompleteLines(ReceivedBy(c)))

\* C14 witness: a retrieval call and another call both resolved, each after
\* a chunk boundary inside a line and a chunk handled while the other call
\* was in the middle of its stream; the retrieval call delivered its event.
C14_Witness ==
  /\ conc # <<>>
  /\ conc[1].op = "retrieve" /\ conc[2].op = "retrieve"
  /\ \A c \in Callers :
       /\ conc[c].rpc = "resolved"
       /\ conc[c].midline /\ conc[c].crossed
       /\ Len(conc[c].calls) = 1

(***************************************************************************)
(* The config module: getConfig called by several callers.  An async       *)
(* function runs to its first await in the caller's turn; what follows an  *)
(* await runs in a later turn, after other callers may have run.           *)
(***************************************************************************)
MaxGetters == 3

\* The object /api/config answers with; the process.env object of the catch.
ServerConfig == [kind |-> "server"]
FallbackConfig == [kind |-> "fallback"]

\* 200 with the JSON object; 500 with a text that is no JSON; no response.
ConfigOutcomes == {"json", "text", "network"}

InitConfig ==
  /\ op = "none"
  /\ plan = NoPlan
  /\ stream = <<>> /\ wire = <<>> /\ buffer = <<>> /\ calls = <<>>
  /\ rpc = "idle" /\ upstream = "none" /\ midline = FALSE
  /\ stage = "None" /\ failedAt = "" /\ trace = <<>> /\ caseText = <<>>
  /\ redacted = Undefined /\ disease = Undefined /\ events = Undefined
  /\ analysis = Undefined
  /\ last = NoCall
  /\ body = Undefined
  /\ gone = FALSE
  /\ stub = Undefined
  /\ history = <<>>
  /\ conc = <<>>
  /\ config = Null
  /\ getters = [g \in 1..MaxGetters |->
                  [pc |-> "idle", response |-> "", ret |-> Null]]
  /\ fetches = 0
  /\ thrower = {}
  /\ proxy = Undefined

\* Nothing but the config module runs.
OnlyConfig ==
  /\ UNCHANGED svars
  /\ UNCHANGED pvars
  /\ UNCHANGED <<gone, stub, history, conc, thrower, proxy>>

\* getConfig() up to its first await: lines 41-42, then 18-20 of fetchConfig;
\* with a config cached, line 44.
GetConfig(g) ==
  /\ getters[g].pc = "idle"
  /\ IF config = Null
       THEN /\ fetches' = fetches + 1
            /\ getters' = [getters EXCEPT ![g].pc = "fetching"]
       ELSE /\ getters' = [getters EXCEPT ![g].pc = "done", ![g].ret = config]
            /\ UNCHANGED fetches
  /\ UNCHANGED config
  /\ OnlyConfig

\* Line 20: the fetch settles; a rejection goes to the catch (lines 22-35).
FetchSettles(g, outcome) ==
  /\ getters[g].pc = "fetching"
  /\ IF outcome = "network"
       THEN /\ config' = FallbackConfig
            /\ getters' = [getters EXCEPT ![g].pc = "resuming"]
       ELSE /\ getters' = [getters EXCEPT ![g].pc = "parsing",
                                          ![g].response = outcome]
            /\ UNCHANGED config
  /\ UNCHANGED fetches
  /\ OnlyConfig

\* Line 21: response.json() settles and config is assigned; a body that is
\* no JSON goes to the catch (lines 22-35).  fetchConfig returns (line 37).
JsonSettles(g) ==
  /\ getters[g].pc = "parsing"
  /\ config' = IF getters[g].response = "json" THEN ServerConfig
                                               ELSE FallbackConfig
  /\ getters' = [getters EXCEPT ![g].pc = "resuming"]
  /\ UNCHANGED fetches
  /\ OnlyConfig

\* Lines 42-44: getConfig resumes after await fetchConfig() and returns the
\* config of that moment.
ConfigReturns(g) ==
  /\ getters[g].pc = "resuming"
  /\ getters' = [getters EXCEPT ![g].pc = "done", ![g].ret = config]
  /\ UNCHANGED <<config, fetches>>
  /\ OnlyConfig

ConfigStep ==
  \E g \in 1..MaxGetters :
    \/ GetConfig(g)
    \/ \E outcome \in ConfigOutcomes : FetchSettles(g, outcome)
    \/ JsonSettles(g)
    \/ ConfigReturns(g)

SpecConfig == InitConfig /\ [][ConfigStep]_vars

SomeReturned == \E g \in DOMAIN getters : getters[g].pc = "done"

\* C15: once a getConfig call has returned a config, the cached config is
\* never replaced, and all the getConfig calls that have returned, the ones
\* in progress at that moment among them, returned that config.
C15_ConfigImmutableOnceResolved ==
  /\ [][SomeReturned => config' = config]_vars
  /\ [](\A g \in DOMAIN getters : \A h \in DOMAIN getters :
          (getters[g].pc = "done" /\ getters[h].pc = "done")
            => getters[g].ret = getters[h].ret)

\* C19: whatever the interleaving of the getConfig calls, at most one
\* request is sent to /api/config.
C19_ConfigFetchedOnce == fetches <= 1

(***************************************************************************)
(* The articles of a retrieval and the retrieval without a query.          *)
(***************************************************************************)
\* The outcome of one article: its article event or its scoped error event.
IsResult(e) == e.type \in {"article", "error"} /\ e.id # ""

Requested(args) ==
  IF args.numArticles = Undefined THEN DefaultNumArticles
  ELSE args.numArticles.value

\* C16: the article and article-scoped error events delivered for a retrieval
\* carry pairwise distinct ids; a completed retrieval has delivered exactly
\* one of them for each selected article; and the article events carry at
\* most as many ids as the caller asked for (15 when it passed no number).
C16_ArticlesEmittedOnce ==
  (op = "retrieve" /\ plan.args # Undefined)
    => /\ \A i \in 1..Len(calls) : \A j \in 1..Len(calls) :
            (i # j /\ IsResult(calls[i]) /\ IsResult(calls[j]))
              => calls[i].id # calls[j].id
       /\ (rpc = "resolved" /\ plan.search) =>
            \A a \in 1..plan.n :
              Cardinality({i \in 1..Len(calls) :
                             IsResult(calls[i]) /\ calls[i].id = IdSeq[a]}) = 1
       /\ Cardinality({calls[i].id : i \in {j \in 1..Len(calls) :
                                               calls[j].type = "article"}})
            <= Requested(plan.args)

\* C16 witness: a completed retrieval of two articles, received in pieces,
\* one article delivered and the other failed, for a caller that asked for
\* two or passed no number.
C16_Witness ==
  /\ op = "retrieve" /\ plan.args # Undefined
  /\ rpc = "resolved" /\ plan.search /\ midline
  /\ plan.n = 2 /\ Cardinality(plan.fails) = 1
  /\ CountOf("article") = 1 /\ CountOf("error") = 1

\* C17: a retrieval called with the disease "" and the events [] never
\* delivers an article event and delivers at most one event; when it has
\* completed it has delivered exactly one event, the terminal error.
C17_EmptyQuerySingleError ==
  (/\ op = "retrieve" /\ plan.args # Undefined
   /\ plan.args.disease = <<>> /\ plan.args.events = <<>>)
    => /\ \A i \in 1..Len(calls) : calls[i].type # "article"
       /\ Len(calls) <= 1
       /\ rpc = "resolved" => calls = <<[type |-> "error", id |-> ""]>>

\* C17 witness: such a call completed, its one line received in pieces.
C17_Witness ==
  /\ op = "retrieve" /\ plan.args # Undefined
  /\ plan.args.disease = <<>> /\ plan.args.events = <<>>
  /\ rpc = "resolved" /\ midline
  /\ Len(calls) = 1

(***************************************************************************)
(* Lines that are no event among lines that are.                           *)
(***************************************************************************)
\* The line parses to an object with a type.
WellFormed(line) ==
  JSONParse(Trim(line)).kind = "object" /\ JSONParse(Trim(line)).type # ""

RECURSIVE KeepWellFormed(_)
KeepWellFormed(ls) ==
  IF ls = <<>> THEN <<>>
  ELSE (IF WellFormed(Head(ls)) THEN <<Head(ls)>> ELSE <<>>)
         \o KeepWellFormed(Tail(ls))

EventOf(line) ==
  [type |-> JSONParse(Trim(line)).type, id |-> JSONParse(Trim(line)).id]

C20_DataHandlerTerminates == rpc # "hung"

\* C21: in a stream with a blank or white-space line, the onProgress calls
\* made so far are still the events of the complete lines received so far:
\* the lines after the blank one are cut at their own newlines and lose no
\* character.
C21_BlankLineSkipped ==
  (op = "retrieve" /\ ~NoBlankLine(stream) /\ rpc \in {"streaming", "resolved"})
    => calls = EventsOf(Received)

(***************************************************************************)
(* Streams that end without a newline: event lines and white-space lines   *)
(* as long as an event, then a last event with no newline after it.        *)
(***************************************************************************)
MaxFragmentLines == 2

FragmentForms == { <<"{", "a", "1", "}">>, <<"\r", "\r", "\r">> }

FragmentStreams ==
  { Lines(ls) \o t :
      ls \in SeqsUpTo(FragmentForms, MaxFragmentLines), t \in TailForms }

InitFragment == StreamInit("retrieve", FragmentStreams)
SpecFragment == InitFragment /\ [][StreamStep]_vars

\* What follows the last newline of the text.
Fragment(text) == Split(text, NL)[Len(Split(text, NL))]

\* C22: when the stream ends with a fragment that no newline terminates,
\* the onProgress calls are calls for newline-terminated lines of the stream
\* only, in their order: the fragment is never delivered, a complete JSON
\* event or not.
C22_UnterminatedFragmentNotDelivered ==
  (/\ op = "retrieve" /\ Fragment(stream) # <<>>
   /\ rpc \in {"streaming", "resolved"})
    => IsSubSeq(calls, EventsOf(stream))

(***************************************************************************)
(* A caller whose onProgress throws on some events.                        *)
(***************************************************************************)
MaxThrowLines == 2

ThrowStreams ==
  { Lines(ls) :
      ls \in SeqsUpTo({<<"{", "a", "1", "}">>, <<"{", "d", "}">>},
                      MaxThrowLines) }

InitThrow ==
  /\ op = "retrieve"
  /\ plan = NoPlan
  /\ stream \in ThrowStreams
  /\ wire = stream
  /\ buffer = <<>>
  /\ calls = <<>>
  /\ rpc = "posting"
  /\ upstream = "none"
  /\ midline = FALSE
  /\ stage = "None" /\ failedAt = "" /\ trace = <<>> /\ caseText = <<>>
  /\ redacted = Undefined /\ disease = Undefined /\ events = Undefined
  /\ analysis = Undefined
  /\ last = NoCall
  /\ body = Undefined
  /\ gone = FALSE
  /\ stub = Undefined
  /\ history = <<>>
  /\ conc = <<>>
  /\ config = Null
  /\ getters = <<>>
  /\ fetches = 0
  /\ thrower \in SUBSET {"article", "done"}
  /\ proxy = Undefined

SpecThrow == InitThrow /\ [][StreamStep]_vars

\* C23: with an onProgress that throws on some events, the onProgress calls
\* made so far are still the events of the complete lines received so far,
\* the events after one that made it throw included, and whatever chunk
\* comes next the handler returns: the throw never reaches the promise.
C23_CallbackThrowCaught ==
  (op = "retrieve" /\ thrower # {} /\ rpc \in {"streaming", "resolved"})
    => /\ calls = EventsOfLines(CompleteLines(Received))
       /\ \A k \in 1..Len(wire) :
            LET r == DataHandler(buffer, SubSeq(wire, 1, k), calls)
            IN ~r.hung /\ r.calls = EventsOf(SubSeq(stream, 1, Len(Received) + k))

\* C23 witness: a completed call whose onProgress threw on the first event
\* and was called with the second, both received in one chunk.
C23_Witness ==
  /\ op = "retrieve" /\ rpc = "resolved" /\ ~midline
  /\ Len(calls) = 2
  /\ calls[1].type \in thrower
  /\ calls[2].type \notin thrower

(***************************************************************************)
(* The non-streaming proxy routes of the server: each handler awaits one   *)
(* axios call to the backend and answers in the try or in the catch.       *)
(***************************************************************************)
DeleteTemplate == "DELETE /templates/:templateId"

Routes ==
  { "POST /capricorn-redact-sensitive-info",
    "POST /pubmed-search-tester-extract-disease",
    "POST /pubmed-search-tester-extract-events",
    "POST /templates",
    "GET /templates",
    DeleteTemplate,
    "POST /capricorn-final-analysis",
    "POST /capricorn-feedback",
    "POST /capricorn-process-lab",
    "GET /generate-sample-case" }

\* What the backend does with the call: it answers with a status and a
\* body, or there is no answer (connection refused, timeout).
BackendStatuses == {200, 201, 304, 404, 503}
BackendData == {Text(<<"a">>), Obj(Text(<<"r">>), Undefined)}
NoAnswer == [answered |-> FALSE, status |-> 0, data |-> Undefined]
BackendReplies ==
  { [answered |-> TRUE, status |-> st, data |-> d] :
      st \in BackendStatuses, d \in BackendData }
  \cup { NoAnswer }

\* error.message of the axios error.
ErrorMessage(reply) ==
  [kind |-> "message", answered |-> reply.answered, status |-> reply.status]

\* The catch answering every error with 500.
RouteResponseMutAlways500(route, reply) ==
  IF reply.answered /\ AxiosResolves(reply.status)
    THEN [status |-> 200,
          body |-> IF route = DeleteTemplate THEN Undefined ELSE reply.data]
    ELSE [status |-> 500, body |-> ErrorMessage(reply)]

\* try: res.json(backendResponse.data), or res.status(200).send() in the
\* DELETE route (line 304); catch: res.status(error.response?.status || 500)
\* .send(error.message).
RouteResponse(route, reply) ==
  IF reply.answered /\ AxiosResolves(reply.status)
    THEN [status |-> 200,
          body |-> IF route = DeleteTemplate THEN Undefined ELSE reply.data]
    ELSE [status |-> IF reply.answered /\ reply.status # 0
                       THEN reply.status ELSE 500,
          body |-> ErrorMessage(reply)]

InitProxy ==
  /\ op = "none"
  /\ plan = NoPlan
  /\ stream = <<>> /\ wire = <<>> /\ buffer = <<>> /\ calls = <<>>
  /\ rpc = "idle" /\ upstream = "none" /\ midline = FALSE
  /\ stage = "None" /\ failedAt = "" /\ trace = <<>> /\ caseText = <<>>
  /\ redacted = Undefined /\ disease = Undefined /\ events = Undefined
  /\ analysis = Undefined
  /\ last = NoCall
  /\ body = Undefined
  /\ gone = FALSE
  /\ stub = Undefined
  /\ history = <<>>
  /\ conc = <<>>
  /\ config = Null
  /\ getters = <<>>
  /\ fetches = 0
  /\ thrower = {}
  /\ \E route \in Routes :
       proxy = [route |-> route, pc |-> "received", reply |-> NoAnswer,
                sent |-> <<>>]

OnlyProxy ==
  /\ UNCHANGED svars
  /\ UNCHANGED pvars
  /\ UNCHANGED <<gone, stub, history, conc, config, getters, fetches, thrower>>

\* The handler runs to its await: the axios call to the backend is made.
CallsBackend ==
  /\ proxy # Undefined
  /\ proxy.pc = "received"
  /\ proxy' = [proxy EXCEPT !.pc = "awaiting"]
  /\ OnlyProxy

\* The axios call settles and the handler answers, in the try or the catch.
BackendSettles(reply) ==
  /\ proxy # Undefined
  /\ proxy.pc = "awaiting"
  /\ proxy' = [proxy EXCEPT
                 !.pc = "done",
                 !.reply = reply,
                 !.sent = Append(@, RouteResponse(proxy.route, reply))]
  /\ OnlyProxy

ProxyStep ==
  \/ CallsBackend
  \/ \E reply \in BackendReplies : BackendSettles(reply)

SpecProxy == InitProxy /\ [][ProxyStep]_vars

BackendSucceeded == proxy.reply.answered /\ AxiosResolves(proxy.reply.status)

\* The one response of a failed backend call: the backend's status when it
\* answered, else 500, the error message as body, never a success status.
FailureAnswered ==
  /\ proxy.sent[1].status =
       (IF proxy.reply.answered THEN proxy.reply.status ELSE 500)
  /\ proxy.sent[1].body = ErrorMessage(proxy.reply)
  /\ ~AxiosResolves(proxy.sent[1].status)

\* C24 as stated: a handler that has run has sent exactly one response, the
\* backend's response body on success, and on failure the backend's status
\* when it answered (500 otherwise) with the error message; no response is
\* sent before.
C24_OneResponsePerRequest ==
  proxy # Undefined =>
    IF proxy.pc = "done"
      THEN /\ Len(proxy.sent) = 1
           /\ IF BackendSucceeded
                THEN /\ AxiosResolves(proxy.sent[1].status)
                     /\ proxy.sent[1].body = proxy.reply.data
                ELSE FailureAnswered
      ELSE proxy.sent = <<>>

\* C24 amended: as above, but on success the DELETE route answers 200 with
\* an empty body, whatever body the backend sent.
C24_OneResponsePerRequestAmended ==
  proxy # Undefined =>
    IF proxy.pc = "done"
      THEN /\ Len(proxy.sent) = 1
           /\ IF BackendSucceeded
                THEN /\ AxiosResolves(proxy.sent[1].status)
                     /\ proxy.sent[1].body =
                          (IF proxy.route = DeleteTemplate THEN Undefined
                           ELSE proxy.reply.data)
                ELSE FailureAnswered
      ELSE proxy.sent = <<>>

\* C24 witness: a route answered the backend's 404 with a 404 and the
\* error message.
C24_Witness ==
  /\ proxy # Undefined
  /\ proxy.pc = "done"
  /\ proxy.reply.answered /\ proxy.reply.status = 404
  /\ proxy.sent = <<[status |-> 404, body |-> ErrorMessage(proxy.reply)]>>
====
